---- MODULE Spec2Model ----
(***************************************************************************)
(* Model of hex-literal/src/comments.rs: ExcludingComments, an iterator    *)
(* decorator that removes `//` line comments from a byte stream with a     *)
(* three-state machine and a one-byte replay buffer.                       *)
(*                                                                         *)
(* One action per branch of the loop body of ExcludingComments::next,      *)
(* plus the caller's side (tests::exclude_comments): calling next, and     *)
(* feeding a second ExcludingComments with bytes derived from a first run. *)
(***************************************************************************)
EXTENDS Integers, Sequences, FiniteSets, TLC

\* ---------------------------------------------------------------- bounds
MaxLen == 6          \* longest input fed to exclude_comments
NumOther == 1        \* how many bytes other than '/' and '\n' occur in inputs
MaxExtraPulls == 2   \* calls of next() made after the first None

\* ------------------------------------------------------------- constants
Slash == 47          \* b'/'
Newline == 10        \* b'\n'

OtherBytes == 97 .. (97 + NumOther - 1)
Bytes == {Slash, Newline} \cup OtherBytes

\* Option<u8>
None == << >>
Some(b) == << b >>

\* enum State
Char == << "Char" >>
PotentialLineComment(first_slash) == << "PotentialLineComment", first_slash >>
LineComment == << "LineComment" >>

RECURSIVE SeqsUpTo(_)
SeqsUpTo(n) ==
    IF n = 0 THEN { << >> }
    ELSE LET shorter == SeqsUpTo(n - 1)
         IN  shorter \cup { Append(s, b) : s \in { t \in shorter : Len(t) = n - 1 }, b \in Bytes }

Inputs == SeqsUpTo(MaxLen)

VARIABLES
    input,      \* the bytes the wrapped iterator was created over
    iter,       \* self.iter: the bytes the wrapped iterator has not yielded yet
    state,      \* self.state
    buffer,     \* self.buffer
    pc,         \* "idle": no call of next() in progress; "loop": inside the loop of next()
    ret,        \* what the last finished call of next() returned
    out,        \* the bytes collected by the caller so far
    nones,      \* how many calls of next() have returned None
    iterCalls,  \* how many times self.iter.next() has been called
    bufferAt,   \* history: index in input of the byte in buffer (0 if none)
    slashAt,    \* history: index in input of the '/' held in PotentialLineComment (0 if none)
    openerAt,   \* history: index in input of the first '/' of the last confirmed "//" (0 if none)
    outAt,      \* history: for each collected byte, its index in input
    run,        \* "first", or what the second run was fed: "output" or "prefix"
    first,      \* the complete output of the first run, once a second run has started
    firstInput  \* the input of the first run, once a second run has started

vars == << input, iter, state, buffer, pc, ret, out, nones, iterCalls,
           bufferAt, slashAt, openerAt, outAt, run, first, firstInput >>

hist == << bufferAt, slashAt, openerAt, outAt >>
harness == << run, first, firstInput >>

\* number of bytes the wrapped iterator has yielded
Pos == Len(input) - Len(iter)

\* ExcludingComments::new_from_iter over the bytes src
new_from_iter(src) ==
    /\ input' = src
    /\ iter' = src
    /\ state' = Char
    /\ buffer' = None
    /\ pc' = "idle"
    /\ ret' = None
    /\ out' = << >>
    /\ nones' = 0
    /\ iterCalls' = 0
    /\ bufferAt' = 0
    /\ slashAt' = 0
    /\ openerAt' = 0
    /\ outAt' = << >>

Init ==
    /\ input \in Inputs
    /\ iter = input
    /\ state = Char
    /\ buffer = None
    /\ pc = "idle"
    /\ ret = None
    /\ out = << >>
    /\ nones = 0
    /\ iterCalls = 0
    /\ bufferAt = 0
    /\ slashAt = 0
    /\ openerAt = 0
    /\ outAt = << >>
    /\ run = "first"
    /\ first = << >>
    /\ firstInput = << >>

\* the caller calls next(): the collect() of tests::exclude_comments calls until
\* None; MaxExtraPulls further calls model a caller that keeps pulling
CallNext ==
    /\ pc = "idle"
    /\ nones <= MaxExtraPulls
    /\ pc' = "loop"
    /\ UNCHANGED << input, iter, state, buffer, ret, out, nones, iterCalls >>
    /\ UNCHANGED hist
    /\ UNCHANGED harness

\* self.buffer.take().or_else(|| self.iter.next())
next_option ==
    IF buffer # None THEN buffer
    ELSE IF iter # << >> THEN Some(Head(iter))
    ELSE None

\* the wrapped iterator after that expression
IterAfterTake == IF buffer # None \/ iter = << >> THEN iter ELSE Tail(iter)

\* self.iter.next() is called only when the buffer was empty
IterCallsAfterTake == IF buffer # None THEN iterCalls ELSE iterCalls + 1

\* history: the index in input of the byte in next_option
NextAt == IF buffer # None THEN bufferAt ELSE Pos + 1

\* a call of next() returns r
Return(r) ==
    /\ pc' = "idle"
    /\ ret' = r
    /\ out' = IF r = None THEN out ELSE Append(out, r[1])
    /\ nones' = IF r = None THEN nones + 1 ELSE nones

\* the loop goes round again
Continue ==
    /\ pc' = "loop"
    /\ UNCHANGED << ret, out, nones >>

\* Exhausted, had it put a held '/' back into the buffer before returning None
Exhausted_HeldPutBack ==
    /\ pc = "loop"
    /\ next_option = None
    /\ buffer' = IF state[1] = "PotentialLineComment" THEN state[2] ELSE None
    /\ state' = Char
    /\ iter' = IterAfterTake
    /\ iterCalls' = IterCallsAfterTake
    /\ Return(None)
    /\ bufferAt' = IF state[1] = "PotentialLineComment" THEN slashAt ELSE 0
    /\ slashAt' = 0
    /\ UNCHANGED << input, openerAt, outAt >>
    /\ UNCHANGED harness

\* let next = next_option?;  with next_option = None
Exhausted ==
    /\ pc = "loop"
    /\ next_option = None
    /\ buffer' = None
    /\ iter' = IterAfterTake
    /\ iterCalls' = IterCallsAfterTake
    /\ Return(None)
    /\ UNCHANGED << input, state >>
    /\ UNCHANGED hist
    /\ UNCHANGED harness

\* CharSlash, had it held what is left in the buffer after take() instead of
\* the byte it read
CharSlash_HeldBuffer ==
    /\ pc = "loop"
    /\ next_option # None
    /\ state = Char
    /\ next_option[1] = Slash
    /\ state' = PotentialLineComment(None)
    /\ buffer' = None
    /\ iter' = IterAfterTake
    /\ iterCalls' = IterCallsAfterTake
    /\ Continue
    /\ slashAt' = NextAt
    /\ bufferAt' = 0
    /\ UNCHANGED << input, openerAt, outAt >>
    /\ UNCHANGED harness

\* CharSlash, had it returned the '/' instead of going round the loop again
CharSlash_Returned ==
    /\ pc = "loop"
    /\ next_option # None
    /\ state = Char
    /\ next_option[1] = Slash
    /\ state' = PotentialLineComment(next_option)
    /\ buffer' = None
    /\ iter' = IterAfterTake
    /\ iterCalls' = IterCallsAfterTake
    /\ Return(next_option)
    /\ outAt' = Append(outAt, NextAt)
    /\ slashAt' = NextAt
    /\ bufferAt' = 0
    /\ UNCHANGED << input, openerAt >>
    /\ UNCHANGED harness

\* State::Char, b'/'
CharSlash ==
    /\ pc = "loop"
    /\ next_option # None
    /\ state = Char
    /\ next_option[1] = Slash
    /\ state' = PotentialLineComment(next_option)
    /\ buffer' = None
    /\ iter' = IterAfterTake
    /\ iterCalls' = IterCallsAfterTake
    /\ Continue
    /\ slashAt' = NextAt
    /\ bufferAt' = 0
    /\ UNCHANGED << input, openerAt, outAt >>
    /\ UNCHANGED harness

\* CharOther, had the loop called the wrapped iterator even when the buffer
\* held a byte
CharOther_AlsoPulled ==
    /\ pc = "loop"
    /\ next_option # None
    /\ state = Char
    /\ next_option[1] # Slash
    /\ buffer' = None
    /\ iter' = IF iter = << >> THEN iter ELSE Tail(iter)
    /\ iterCalls' = iterCalls + 1
    /\ Return(next_option)
    /\ outAt' = Append(outAt, NextAt)
    /\ bufferAt' = 0
    /\ UNCHANGED << input, state, slashAt, openerAt >>
    /\ UNCHANGED harness

\* CharOther, had it gone round the loop again instead of returning the byte
CharOther_Skipped ==
    /\ pc = "loop"
    /\ next_option # None
    /\ state = Char
    /\ next_option[1] # Slash
    /\ buffer' = None
    /\ iter' = IterAfterTake
    /\ iterCalls' = IterCallsAfterTake
    /\ Continue
    /\ bufferAt' = 0
    /\ UNCHANGED << input, state, slashAt, openerAt, outAt >>
    /\ UNCHANGED harness

\* State::Char, any other byte
CharOther ==
    /\ pc = "loop"
    /\ next_option # None
    /\ state = Char
    /\ next_option[1] # Slash
    /\ buffer' = None
    /\ iter' = IterAfterTake
    /\ iterCalls' = IterCallsAfterTake
    /\ Return(next_option)
    /\ outAt' = Append(outAt, NextAt)
    /\ bufferAt' = 0
    /\ UNCHANGED << input, state, slashAt, openerAt >>
    /\ UNCHANGED harness

\* PotentialSlash, had the second '/' been handled as any other byte: the
\* first '/' is returned and the second saved
PotentialSlash_ReturnedFirst ==
    /\ pc = "loop"
    /\ next_option # None
    /\ state[1] = "PotentialLineComment"
    /\ next_option[1] = Slash
    /\ buffer' = next_option
    /\ state' = Char
    /\ iter' = IterAfterTake
    /\ iterCalls' = IterCallsAfterTake
    /\ Return(state[2])
    /\ bufferAt' = NextAt
    /\ outAt' = IF state[2] = None THEN outAt ELSE Append(outAt, slashAt)
    /\ slashAt' = 0
    /\ UNCHANGED << input, openerAt >>
    /\ UNCHANGED harness

\* PotentialSlash, had it saved the second '/' as the other branch saves its byte
PotentialSlash_Saved ==
    /\ pc = "loop"
    /\ next_option # None
    /\ state[1] = "PotentialLineComment"
    /\ next_option[1] = Slash
    /\ state' = LineComment
    /\ buffer' = next_option
    /\ iter' = IterAfterTake
    /\ iterCalls' = IterCallsAfterTake
    /\ Continue
    /\ openerAt' = slashAt
    /\ slashAt' = 0
    /\ bufferAt' = NextAt
    /\ UNCHANGED << input, outAt >>
    /\ UNCHANGED harness

\* State::PotentialLineComment, b'/': second '/', enter line comment
PotentialSlash ==
    /\ pc = "loop"
    /\ next_option # None
    /\ state[1] = "PotentialLineComment"
    /\ next_option[1] = Slash
    /\ state' = LineComment
    /\ buffer' = None
    /\ iter' = IterAfterTake
    /\ iterCalls' = IterCallsAfterTake
    /\ Continue
    /\ openerAt' = slashAt
    /\ slashAt' = 0
    /\ bufferAt' = 0
    /\ UNCHANGED << input, outAt >>
    /\ UNCHANGED harness

\* PotentialOther, had it returned the byte it read instead of the first '/'
PotentialOther_ReturnedRead ==
    /\ pc = "loop"
    /\ next_option # None
    /\ state[1] = "PotentialLineComment"
    /\ next_option[1] # Slash
    /\ buffer' = next_option
    /\ state' = Char
    /\ iter' = IterAfterTake
    /\ iterCalls' = IterCallsAfterTake
    /\ Return(next_option)
    /\ bufferAt' = NextAt
    /\ outAt' = Append(outAt, NextAt)
    /\ slashAt' = 0
    /\ UNCHANGED << input, openerAt >>
    /\ UNCHANGED harness

\* PotentialOther, had it not saved the byte it read
PotentialOther_NotSaved ==
    /\ pc = "loop"
    /\ next_option # None
    /\ state[1] = "PotentialLineComment"
    /\ next_option[1] # Slash
    /\ buffer' = None
    /\ state' = Char
    /\ iter' = IterAfterTake
    /\ iterCalls' = IterCallsAfterTake
    /\ Return(state[2])
    /\ bufferAt' = 0
    /\ outAt' = IF state[2] = None THEN outAt ELSE Append(outAt, slashAt)
    /\ slashAt' = 0
    /\ UNCHANGED << input, openerAt >>
    /\ UNCHANGED harness

\* State::PotentialLineComment, any other byte: emit the first '/', save this byte
PotentialOther ==
    /\ pc = "loop"
    /\ next_option # None
    /\ state[1] = "PotentialLineComment"
    /\ next_option[1] # Slash
    /\ buffer' = next_option
    /\ state' = Char
    /\ iter' = IterAfterTake
    /\ iterCalls' = IterCallsAfterTake
    /\ Return(state[2])
    /\ bufferAt' = NextAt
    /\ outAt' = IF state[2] = None THEN outAt ELSE Append(outAt, slashAt)
    /\ slashAt' = 0
    /\ UNCHANGED << input, openerAt >>
    /\ UNCHANGED harness

\* CommentNewline, had it returned the newline without leaving the comment
CommentNewline_StayedInComment ==
    /\ pc = "loop"
    /\ next_option # None
    /\ state = LineComment
    /\ next_option[1] = Newline
    /\ buffer' = None
    /\ iter' = IterAfterTake
    /\ iterCalls' = IterCallsAfterTake
    /\ Return(next_option)
    /\ outAt' = Append(outAt, NextAt)
    /\ bufferAt' = 0
    /\ UNCHANGED << input, state, slashAt, openerAt >>
    /\ UNCHANGED harness

\* CommentNewline, had it ended the comment without returning the newline
CommentNewline_Swallowed ==
    /\ pc = "loop"
    /\ next_option # None
    /\ state = LineComment
    /\ next_option[1] = Newline
    /\ state' = Char
    /\ buffer' = None
    /\ iter' = IterAfterTake
    /\ iterCalls' = IterCallsAfterTake
    /\ Continue
    /\ bufferAt' = 0
    /\ UNCHANGED << input, slashAt, openerAt, outAt >>
    /\ UNCHANGED harness

\* State::LineComment, b'\n'
CommentNewline ==
    /\ pc = "loop"
    /\ next_option # None
    /\ state = LineComment
    /\ next_option[1] = Newline
    /\ state' = Char
    /\ buffer' = None
    /\ iter' = IterAfterTake
    /\ iterCalls' = IterCallsAfterTake
    /\ Return(next_option)
    /\ outAt' = Append(outAt, NextAt)
    /\ bufferAt' = 0
    /\ UNCHANGED << input, slashAt, openerAt >>
    /\ UNCHANGED harness

\* CommentOther, had the loop looked at the next byte without taking it
CommentOther_Peeked ==
    /\ pc = "loop"
    /\ next_option # None
    /\ state = LineComment
    /\ next_option[1] # Newline
    /\ Continue
    /\ UNCHANGED << input, iter, iterCalls, buffer, state >>
    /\ UNCHANGED hist
    /\ UNCHANGED harness

\* CommentOther, had it taken a '/' inside the comment for a possible opener
CommentOther_SlashReopens ==
    /\ pc = "loop"
    /\ next_option # None
    /\ state = LineComment
    /\ next_option[1] # Newline
    /\ state' = IF next_option[1] = Slash THEN PotentialLineComment(next_option) ELSE state
    /\ buffer' = None
    /\ iter' = IterAfterTake
    /\ iterCalls' = IterCallsAfterTake
    /\ Continue
    /\ bufferAt' = 0
    /\ slashAt' = IF next_option[1] = Slash THEN NextAt ELSE slashAt
    /\ UNCHANGED << input, openerAt, outAt >>
    /\ UNCHANGED harness

\* CommentOther, had it returned the byte instead of ignoring it
CommentOther_Returned ==
    /\ pc = "loop"
    /\ next_option # None
    /\ state = LineComment
    /\ next_option[1] # Newline
    /\ buffer' = None
    /\ iter' = IterAfterTake
    /\ iterCalls' = IterCallsAfterTake
    /\ Return(next_option)
    /\ outAt' = Append(outAt, NextAt)
    /\ bufferAt' = 0
    /\ UNCHANGED << input, state, slashAt, openerAt >>
    /\ UNCHANGED harness

\* State::LineComment, any other byte: ignored
CommentOther ==
    /\ pc = "loop"
    /\ next_option # None
    /\ state = LineComment
    /\ next_option[1] # Newline
    /\ buffer' = None
    /\ iter' = IterAfterTake
    /\ iterCalls' = IterCallsAfterTake
    /\ Continue
    /\ bufferAt' = 0
    /\ UNCHANGED << input, state, slashAt, openerAt, outAt >>
    /\ UNCHANGED harness

\* the collect() of tests::exclude_comments has finished
Collected == pc = "idle" /\ nones >= 1

\* exclude_comments(exclude_comments(input)): a second run over the first run's output
RefilterOutput ==
    /\ Collected
    /\ run = "first"
    /\ new_from_iter(out)
    /\ run' = "output"
    /\ first' = out
    /\ firstInput' = input

\* exclude_comments over the part of input before the last confirmed "//",
\* when the first run ended inside that comment
RefilterPrefix ==
    /\ Collected
    /\ run = "first"
    /\ state = LineComment
    /\ new_from_iter(SubSeq(input, 1, openerAt - 1))
    /\ run' = "prefix"
    /\ first' = out
    /\ firstInput' = input

Next ==
    \/ CallNext
    \/ Exhausted
    \/ CharSlash
    \/ CharOther
    \/ PotentialSlash
    \/ PotentialOther
    \/ CommentNewline
    \/ CommentOther
    \/ RefilterOutput
    \/ RefilterPrefix

\* one iteration of the loop of next()
LoopIteration ==
    \/ Exhausted
    \/ CharSlash
    \/ CharOther
    \/ PotentialSlash
    \/ PotentialOther
    \/ CommentNewline
    \/ CommentOther

Spec == Init /\ [][Next]_vars

\* ------------------------------------------------------------------------
\* Vocabulary of the properties, stated on the input alone
\* ------------------------------------------------------------------------

Last(s) == s[Len(s)]
Front(s) == SubSeq(s, 1, Len(s) - 1)
Count(s, b) == Cardinality({ i \in DOMAIN s : s[i] = b })
Has(s, b) == \E i \in DOMAIN s : s[i] = b

\* where the left-to-right scan stands after the bytes s
RECURSIVE Scan(_)
Scan(s) ==
    IF s = << >> THEN "Normal"
    ELSE LET before == Scan(Front(s))
             b == Last(s)
         IN  CASE before = "Normal" -> IF b = Slash THEN "PendingSlash" ELSE "Normal"
               [] before = "PendingSlash" -> IF b = Slash THEN "InComment" ELSE "Normal"
               [] before = "InComment" -> IF b = Newline THEN "Normal" ELSE "InComment"

\* where the scan stands just before it reads input[i]
ScanBefore(i) == Scan(SubSeq(input, 1, i - 1))

\* s from its first newline on; empty if it has none
RECURSIVE FromNewline(_)
FromNewline(s) ==
    IF s = << >> THEN << >>
    ELSE IF Head(s) = Newline THEN s
    ELSE FromNewline(Tail(s))

\* s with every line comment removed: "//" and what follows it up to, not
\* including, the next newline
RECURSIVE WithoutLineComments(_)
WithoutLineComments(s) ==
    IF s = << >> THEN << >>
    ELSE IF Len(s) >= 2 /\ s[1] = Slash /\ s[2] = Slash
         THEN WithoutLineComments(FromNewline(s))
    ELSE << Head(s) >> \o WithoutLineComments(Tail(s))

\* next() is straight-line code in a loop, so an iteration that can run does
\* run; collect() in tests::exclude_comments keeps calling next() until None
LiveSpec ==
    /\ Init
    /\ [][Next]_vars
    /\ WF_vars(LoopIteration)
    /\ WF_vars(CallNext /\ nones = 0)

TypeOK ==
    /\ input \in Seq(Bytes)
    /\ pc \in {"idle", "loop"}
    /\ Len(buffer) <= 1
    /\ Len(ret) <= 1
    /\ state[1] \in {"Char", "PotentialLineComment", "LineComment"}

\* ------------------------------------------------------------------------
\* Properties
\* ------------------------------------------------------------------------

\* C1: once next() has returned None, the collected bytes are the input with
\* every line comment removed and every other byte kept, a '/' not followed
\* by another '/' included.
C1_OutputIsInputWithoutComments ==
    Collected => out = WithoutLineComments(input)

\* C2: when the input ends in a lone '/' read outside a comment, that '/' is
\* emitted before next() returns None: it is the last collected byte.
C2_TrailingSlashIsEmitted ==
    (Collected /\ Scan(input) = "PendingSlash")
        => (out # << >> /\ Last(out) = Slash /\ Last(outAt) = Len(input))

\* the iteration about to run reads a byte other than '/' while a '/' is held
ReadsAfterHeldSlash ==
    /\ pc = "loop"
    /\ state[1] = "PotentialLineComment"
    /\ next_option # None
    /\ next_option[1] # Slash

\* the iteration about to run takes its byte from the buffer
ReadsBuffer == pc = "loop" /\ buffer # None

\* the positions i of input holding a '/' read outside a comment with no '/'
\* held, and followed by a byte other than '/'
LoneSlashes ==
    { i \in 1 .. (Len(input) - 1) :
        /\ input[i] = Slash
        /\ input[i + 1] # Slash
        /\ ScanBefore(i) = "Normal" }

\* C3: the pull that reads a byte b other than '/' after a held '/' returns
\* the '/', leaves b in the buffer and the state at Char; the next pull
\* returns b from the buffer without touching the wrapped iterator; in the
\* collected output the '/' and b are adjacent, each exactly once.
C3_HeldSlashThenReplayedByte ==
    /\ [][ReadsAfterHeldSlash =>
            /\ pc' = "idle"
            /\ ret' = Some(Slash)
            /\ buffer' = next_option
            /\ state' = Char
            /\ out' = Append(out, Slash)]_vars
    /\ [][ReadsBuffer =>
            /\ pc' = "idle"
            /\ ret' = buffer
            /\ buffer' = None
            /\ iter' = iter
            /\ out' = Append(out, buffer[1])]_vars
    /\ [](Collected =>
            \A i \in LoneSlashes :
                /\ Cardinality({ j \in DOMAIN outAt : outAt[j] = i }) = 1
                /\ Cardinality({ j \in DOMAIN outAt : outAt[j] = i + 1 }) = 1
                /\ \E j \in 1 .. (Len(out) - 1) :
                      /\ outAt[j] = i /\ out[j] = Slash
                      /\ outAt[j + 1] = i + 1 /\ out[j + 1] = input[i + 1])

\* a pull has just returned the replayed byte that followed a lone '/'
C3_Witness ==
    /\ pc = "idle"
    /\ buffer = None
    /\ Len(out) >= 2
    /\ ret = Some(Last(out))
    /\ out[Len(out) - 1] = Slash
    /\ Last(out) # Slash
    /\ Last(outAt) = outAt[Len(out) - 1] + 1
    /\ Last(outAt) - 1 \in LoneSlashes

NoNewline(s) == ~ Has(s, Newline)

\* C4: once "//" is confirmed and no newline is left in the input, nothing
\* from the opener on is ever emitted and no newline is made up; the pull
\* that confirmed the opener returns None; the collected output is what a
\* run over the input before the opener collects.
C4_UnterminatedCommentDropsTail ==
    /\ (state = LineComment /\ NoNewline(iter)) =>
            /\ openerAt >= 1
            /\ \A j \in DOMAIN outAt : outAt[j] < openerAt /\ out[j] = input[outAt[j]]
            /\ pc = "idle" => ret = None
    /\ (Collected /\ run = "prefix") => out = first

\* a run over the input before the opener has finished; the first run had
\* collected some bytes and dropped a comment with a body
C4_Witness ==
    /\ Collected
    /\ run = "prefix"
    /\ first # << >>
    /\ Len(firstInput) >= Len(input) + 3
    /\ Len(input) > Len(out)

\* C5: every newline of the input is collected exactly once, whether it was
\* read in Char, PotentialLineComment or LineComment; the output has as many
\* newlines as the input.
C5_NewlinesPreserved ==
    Collected =>
        /\ Count(out, Newline) = Count(input, Newline)
        /\ \A i \in DOMAIN input :
              input[i] = Newline =>
                  Cardinality({ j \in DOMAIN outAt : outAt[j] = i /\ out[j] = Newline }) = 1

\* a finished run over an input with a newline read in each of the three states
C5_Witness ==
    /\ Collected
    /\ \A st \in {"Normal", "PendingSlash", "InComment"} :
          \E i \in DOMAIN input : input[i] = Newline /\ ScanBefore(i) = st

\* C6: on an input without '/', the state stays Char and the buffer empty,
\* every pull returns the next input byte, and the collected output is the
\* input.
C6_IdentityWithoutSlash ==
    ~ Has(input, Slash) =>
        /\ state = Char
        /\ buffer = None
        /\ out = SubSeq(input, 1, Pos)
        /\ (pc = "idle" /\ nones = 0 /\ Pos >= 1) => ret = Some(input[Pos])
        /\ Collected => out = input

\* a finished run over an input without '/' holding a newline and another byte
C6_Witness ==
    /\ Collected
    /\ run = "first"
    /\ ~ Has(input, Slash)
    /\ Has(input, Newline)
    /\ \E b \in OtherBytes : Has(input, b)
    /\ out = input

\* C7: a run over the complete output of a first run collects that same output.
C7_Idempotent ==
    (Collected /\ run = "output") => (input = first /\ out = first)

\* a second run has finished over an output that kept a '/' and from which
\* the first run had removed something
C7_Witness ==
    /\ Collected
    /\ run = "output"
    /\ Has(first, Slash)
    /\ Len(first) < Len(firstInput)
    /\ out = first

\* C8: the collected bytes are input bytes taken at strictly increasing
\* positions: a subsequence of the input, no input byte twice, and no longer
\* than the input.
C8_OutputIsSubsequence ==
    /\ Len(outAt) = Len(out)
    /\ \A j \in DOMAIN out : outAt[j] \in DOMAIN input /\ out[j] = input[outAt[j]]
    /\ \A j, k \in DOMAIN out : j < k => outAt[j] < outAt[k]
    /\ Len(out) <= Len(input)

\* a finished run that kept a lone '/' and its follower and dropped a comment
C8_Witness ==
    /\ Collected
    /\ run = "first"
    /\ LoneSlashes # {}
    /\ \A i \in LoneSlashes : \E j \in DOMAIN outAt : outAt[j] = i
    /\ state = LineComment
    /\ Len(out) >= 2
    /\ Len(out) < Len(input)

\* C9: in LineComment a step changes the state or the output only by reading
\* a newline, which is returned and puts the state back to Char; every other
\* byte, '/' included, is dropped and leaves the state at LineComment.
C9_OnlyNewlineEndsComment ==
    [][(state = LineComment /\ run' = run) =>
         IF pc = "loop" /\ next_option = Some(Newline)
         THEN /\ state' = Char
              /\ pc' = "idle"
              /\ ret' = Some(Newline)
              /\ out' = Append(out, Newline)
         ELSE /\ state' = LineComment
              /\ out' = out]_vars

\* a finished run over an input with "//" inside a comment, a newline ending
\* that comment and a byte after it: the inner "//" is dropped, the newline
\* and the byte are collected
C9_Witness ==
    /\ Collected
    /\ run = "first"
    /\ \E i \in 1 .. (Len(input) - 3) :
          /\ ScanBefore(i) = "InComment"
          /\ input[i] = Slash
          /\ input[i + 1] = Slash
          /\ input[i + 2] = Newline
          /\ input[i + 3] \in OtherBytes
          /\ Len(out) >= 2
          /\ outAt[Len(out) - 1] = i + 2
          /\ outAt[Len(out)] = i + 3

\* C10: the buffer holds a byte only right after a pull returned the held
\* '/' of a failed opener: the state is Char and the byte is the one other
\* than '/' that follows that '/' in the input; the next pull returns it from
\* the buffer, leaving the buffer empty and the wrapped iterator untouched.
C10_BufferOnlyAfterFailedOpener ==
    /\ [](buffer # None =>
            /\ state = Char
            /\ ret = Some(Slash)
            /\ nones = 0
            /\ buffer[1] # Slash
            /\ bufferAt = Pos
            /\ Pos >= 2
            /\ input[Pos] = buffer[1]
            /\ input[Pos - 1] = Slash
            /\ out # << >>
            /\ Last(out) = Slash
            /\ Last(outAt) = Pos - 1)
    /\ [][buffer # None =>
            IF pc = "idle"
            THEN pc' = "loop" /\ buffer' = buffer /\ state' = state
            ELSE /\ pc' = "idle"
                 /\ buffer' = None
                 /\ ret' = buffer
                 /\ out' = Append(out, buffer[1])
                 /\ iter' = iter]_vars

\* between two pulls, the buffer holds the newline that followed a lone '/'
C10_Witness ==
    /\ pc = "idle"
    /\ buffer = Some(Newline)
    /\ ret = Some(Slash)

\* C11: a loop iteration takes its byte from the buffer when it holds one and
\* otherwise calls the wrapped iterator exactly once, never both; the
\* iterator yields the input bytes in order, each once; when next() first
\* returns None the iterator has been called Len(input) + 1 times.
C11_OneSourcePullPerIteration ==
    /\ [][(pc = "loop" /\ run' = run) =>
            IF buffer # None
            THEN /\ iter' = iter
                 /\ iterCalls' = iterCalls
                 /\ buffer' = None
            ELSE /\ iterCalls' = iterCalls + 1
                 /\ iter' = IF iter = << >> THEN iter ELSE Tail(iter)]_vars
    /\ [][(pc = "idle" /\ run' = run) => (iter' = iter /\ iterCalls' = iterCalls)]_vars
    /\ [](iter = SubSeq(input, Pos + 1, Len(input)))
    /\ [](nones = 0 => iterCalls = Pos)
    /\ [](nones = 1 => (iter = << >> /\ iterCalls = Len(input) + 1))

\* next() has returned its first None on an input where one byte came from
\* the buffer
C11_Witness ==
    /\ pc = "idle"
    /\ nones = 1
    /\ LoneSlashes # {}
    /\ iterCalls = Len(input) + 1
    /\ Len(input) >= 3

\* bytes still to be read, a byte of the wrapped iterator counted twice as it
\* may pass through the buffer
Unread == 2 * Len(iter) + Len(buffer)

\* C12: inside next() some branch can always run; an iteration that gets a
\* byte takes exactly one byte, from the buffer or from the wrapped iterator,
\* and an iteration that gets none returns None; every call of next()
\* returns, and repeated calls end in None.
C12_TotalAndTerminating ==
    /\ [](pc = "loop" => ENABLED LoopIteration)
    /\ [][(pc = "loop" /\ run' = run) =>
            IF next_option = None
            THEN pc' = "idle" /\ ret' = None
            ELSE /\ Unread' < Unread
                 /\ IF buffer # None
                    THEN buffer' = None /\ iter' = iter
                    ELSE iter' = Tail(iter)]_vars
    /\ (pc = "loop") ~> (pc = "idle")
    /\ (nones = 0) ~> (nones >= 1)

\* a run has ended in None after a pull that went round the loop several
\* times through a comment
C12_Witness ==
    /\ Collected
    /\ state = LineComment
    /\ Len(input) >= openerAt + 3
    /\ out # << >>

\* C13: a PotentialLineComment state always holds Some('/'); it is entered
\* only from Char by an iteration that read '/'; a step that returns the
\* held value returns '/'.
C13_HeldIsSlash ==
    /\ [](state[1] = "PotentialLineComment" => state[2] = Some(Slash))
    /\ [][(state'[1] = "PotentialLineComment" /\ state[1] # "PotentialLineComment") =>
            /\ pc = "loop"
            /\ state = Char
            /\ next_option = Some(Slash)
            /\ state'[2] = next_option]_vars
    /\ [][(state[1] = "PotentialLineComment" /\ run' = run /\ pc' = "idle" /\ ret' # None) =>
            /\ ret' = state[2]
            /\ ret' = Some(Slash)
            /\ out' = Append(out, Slash)]_vars

\* the held '/' has just been returned after an earlier byte
C13_Witness ==
    /\ pc = "idle"
    /\ ret = Some(Slash)
    /\ buffer # None
    /\ Len(out) >= 2
    /\ Last(outAt) \in LoneSlashes

\* C14: a pull that returns a byte leaves the state at Char; between pulls
\* the state is PotentialLineComment or LineComment only after a pull has
\* returned None; before the first pull the state is Char and the buffer
\* empty.
C14_RestingStateIsChar ==
    /\ (pc = "idle" /\ ret # None) => state = Char
    /\ (pc = "idle" /\ state # Char) => (ret = None /\ nones >= 1)
    /\ (pc = "idle" /\ nones = 0) => state = Char
    /\ (pc = "idle" /\ iterCalls = 0) => (state = Char /\ buffer = None /\ out = << >>)

\* a pull has just returned the newline that ended a comment, back in Char
C14_Witness ==
    /\ pc = "idle"
    /\ ret = Some(Newline)
    /\ state = Char
    /\ openerAt >= 1
    /\ Last(outAt) > openerAt

\* C15: the output never holds two '/' in a row: a '/' is returned only by
\* the PotentialLineComment branch that saves a byte other than '/', and the
\* byte collected right after a '/' is that saved byte, the input byte that
\* follows the '/'.
C15_NoTwoSlashesInOutput ==
    /\ [](\A j \in 1 .. (Len(out) - 1) :
            out[j] = Slash => (out[j + 1] # Slash /\ outAt[j + 1] = outAt[j] + 1))
    /\ [][(run' = run /\ pc' = "idle" /\ ret' = Some(Slash)) =>
            /\ state[1] = "PotentialLineComment"
            /\ ret' = state[2]
            /\ state' = Char
            /\ buffer' # None
            /\ buffer'[1] # Slash]_vars

\* a finished run whose output holds two '/', each followed by its replayed byte
C15_Witness ==
    /\ Collected
    /\ run = "first"
    /\ Count(out, Slash) >= 2
    /\ Len(out) < Len(input)

\* C16: once next() has returned None, with the wrapped iterator staying
\* exhausted, every later call returns None, the state and the empty buffer
\* stay as they are, and no byte is collected any more.
C16_EndIsSticky ==
    /\ [](nones >= 1 => (iter = << >> /\ buffer = None /\ ret = None))
    /\ [][(nones >= 1 /\ run' = run) =>
            /\ state' = state
            /\ buffer' = buffer
            /\ out' = out
            /\ ret' = None
            /\ IF pc = "loop"
               THEN pc' = "idle" /\ nones' = nones + 1
               ELSE pc' = "loop" /\ nones' = nones]_vars

\* two further calls after the first None have returned None, the state
\* still holding the '/' that ended the input
C16_Witness ==
    /\ pc = "idle"
    /\ nones >= 3
    /\ state = PotentialLineComment(Some(Slash))
    /\ out # << >>
====
